---- MODULE Spec2Model ----
(***************************************************************************)
(* Model of gotrue's trust-state core: the AMR claim ledger                *)
(* (models/amr.go), the factor downgrade (models/factor.go) and the        *)
(* one-time-token mail pipeline (api/mail.go).                             *)
(***************************************************************************)
EXTENDS Integers, Sequences, FiniteSets, TLC

(* ------------------------------ bounds -------------------------------- *)

\* last instant of the wall clock in the ledger and link specifications
MaxTime == 1
\* last instant of the wall clock in the mail specification
MaxMailTime == 2
\* number of AddClaimToSession calls one behaviour starts
MaxCalls == 2
\* number of mail operations one behaviour starts
MaxOps == 2

(* ------------------------------ universe ------------------------------ *)

Null == "null"

Sessions == {"s1", "s2", "s3"}
Users == {"u1", "u2"}
Factors == {"f1", "f2"}
Adders == {"a1", "a2"}

\* sessions.user_id
SessionUser == [s \in Sessions |-> IF s = "s3" THEN "u2" ELSE "u1"]

\* type AuthenticationMethod int, const ( OAuth = iota ... )
OAuth == 0
PasswordGrant == 1
OTP == 2
TOTPSignIn == 3

\* const TOTP = "totp"
TOTP == "totp"
FactorStateUnverified == "unverified"
FactorStateVerified == "verified"

\* func (authMethod AuthenticationMethod) String() string
String(authMethod) ==
    CASE authMethod = OAuth -> "oauth"
      [] authMethod = PasswordGrant -> "password"
      [] authMethod = OTP -> "otp"
      [] authMethod = TOTPSignIn -> "totp"
      [] OTHER -> ""

\* the authentication methods the callers of AddClaimToSession pass
UsedMethods == {PasswordGrant, TOTPSignIn}

AAL1 == "aal1"
AAL2 == "aal2"

VARIABLES
    now,         \* the wall clock read by time.Now()
    claims,      \* committed rows of mfa_amr_claims
    aal,         \* committed sessions.aal
    sessFactor,  \* committed sessions.factor_id
    factors,     \* committed rows of mfa_factors
    adders,      \* per concurrent AddClaimToSession caller: its locals
    nextId,      \* source of fresh uuids; also counts the calls started
    dg,          \* the one request that runs DowngradeSessionsToAAL1: its locals and its open transaction
    raced,       \* history: an AddClaimToSession statement ran while the downgrade's transaction was open
    users,       \* committed rows of the users table, by email
    req,         \* per concurrent request of a send* flow: its locals
    mails,       \* the mails the Mailer accepted, in order
    ops,         \* number of mail operations started
    audit,       \* committed audit log entries, in order
    resp,        \* what the last GenerateLink call returned (fault is history: the collaborator that failed in it)
    updaters,    \* per concurrent request that updates a factor: its copy of the factor and its last update
    lookup       \* what the last FindFactorByFactorID call returned (id and fault are history)

ledgerVars == <<claims, aal, sessFactor, factors, adders, nextId, dg, raced>>
mailVars == <<users, req, mails, ops, audit, resp>>
factorVars == <<updaters, lookup>>
vars == <<now, ledgerVars, mailVars, factorVars>>

(* ------------------------------ AMR ledger ---------------------------- *)

\* type AMRClaim struct
AMRClaim(id, s, created, updated, m) ==
    [id |-> id, session_id |-> s, created_at |-> created, updated_at |-> updated,
     authentication_method |-> m]

\* the rows of a table for one (session_id, authentication_method) pair
RowsFor(rows, s, m) ==
    {c \in rows : c.session_id = s /\ c.authentication_method = m}

\* INSERT ... with no conflict clause: a second row for the pair
UpsertWithoutConflictClause(rows, id, s, t, m) ==
    rows \cup {AMRClaim(id, s, t, t, m)}

\* the conflict branch rewrites the whole row: DO UPDATE SET id = ?, created_at = ?, ...
UpsertReplacingRow(rows, id, s, t, m) ==
    {c \in rows : ~(c.session_id = s /\ c.authentication_method = m)}
        \cup {AMRClaim(id, s, t, t, m)}

\* INSERT ... ON CONFLICT ON CONSTRAINT ..._session_id_authentication_method_pkey
\* DO UPDATE SET updated_at = ?  -- one atomic statement
Upsert(rows, id, s, t, m) ==
    IF RowsFor(rows, s, m) = {}
    THEN rows \cup {AMRClaim(id, s, t, t, m)}
    ELSE {IF c.session_id = s /\ c.authentication_method = m
          THEN [c EXCEPT !.updated_at = t] ELSE c : c \in rows}

IdleAdder ==
    [pc |-> "idle", session |-> Null, method |-> Null, id |-> 0, currentTime |-> 0,
     res |-> Null]

\* the downgrade's transaction is open
DgOpen == dg.pc \in {"delete", "update"}

\* rows the open transaction has deleted and still locks
Locked(s, m) == DgOpen /\ <<s, m>> \in dg.deleted

\* AddClaimToSession, lines 25-30: entry, uuid.NewV4() succeeding, currentTime := time.Now().
\* The call is invoked at the instant it samples; the statement is sent later.
AddCall(a, s, am) ==
    /\ adders[a].pc \in {"idle", "done"}
    /\ nextId <= MaxCalls
    /\ adders' = [adders EXCEPT ![a] =
           [pc |-> "sampled", session |-> s, method |-> String(am), id |-> nextId,
            currentTime |-> now, res |-> Null]]
    /\ nextId' = nextId + 1
    /\ UNCHANGED <<now, claims, aal, sessFactor, factors, dg, raced>>
    /\ UNCHANGED <<mailVars, factorVars>>

\* AddClaimToSession, lines 26-29: uuid.NewV4() failing
AddCallIdError(a) ==
    /\ adders[a].pc \in {"idle", "done"}
    /\ nextId <= MaxCalls
    /\ adders' = [adders EXCEPT ![a] = [IdleAdder EXCEPT !.pc = "done", !.res = "err"]]
    /\ nextId' = nextId + 1
    /\ UNCHANGED <<now, claims, aal, sessFactor, factors, dg, raced>>
    /\ UNCHANGED <<mailVars, factorVars>>

\* AddClaimToSession, lines 31-34: the statement executes
AddExec(a) ==
    /\ adders[a].pc = "sampled"
    /\ ~Locked(adders[a].session, adders[a].method)
    /\ claims' = Upsert(claims, adders[a].id, adders[a].session,
                        adders[a].currentTime, adders[a].method)
    /\ adders' = [adders EXCEPT ![a].pc = "done", ![a].res = "ok", ![a].id = 0]
    /\ raced' = (raced \/ DgOpen)
    /\ UNCHANGED <<now, aal, sessFactor, factors, nextId, dg>>
    /\ UNCHANGED <<mailVars, factorVars>>

\* AddClaimToSession, lines 31-34: Exec() returns a storage error
AddExecError(a) ==
    /\ adders[a].pc = "sampled"
    /\ adders' = [adders EXCEPT ![a] = [IdleAdder EXCEPT !.pc = "done", !.res = "err"]]
    /\ UNCHANGED <<now, claims, aal, sessFactor, factors, nextId, dg, raced>>
    /\ UNCHANGED <<mailVars, factorVars>>

(* ------------------------------ downgrade ----------------------------- *)

IdleDowngrade ==
    [pc |-> "idle", f |-> Null, userID |-> Null, factorType |-> Null,
     sessions |-> <<>>, i |-> 1, deleted |-> {}, res |-> Null]

\* the sessions, in a fixed order
SessionOrder == <<"s1", "s2", "s3">>

\* FindSessionsByFactorID: the sessions currently bound to the factor
FindSessionsByFactorID(fid) ==
    SelectSeq(SessionOrder, LAMBDA s : sessFactor[s] = fid)

\* updateFactorAssociatedSessions: baseline for every session of the user bound to the factor
updateFactorAssociatedSessions(levels, userID, fid, level) ==
    [s \in Sessions |->
        IF SessionUser[s] = userID /\ sessFactor[s] = fid THEN level ELSE levels[s]]

\* the caller's transaction commits: the deletes and the new levels become visible together
CommitDowngrade(rows, d) ==
    {c \in rows : <<c.session_id, c.authentication_method>> \notin d.deleted}

\* DowngradeSessionsToAAL1, lines 149-153: the session lookup succeeds
DowngradeBegin(fid) ==
    /\ dg.pc = "idle"
    /\ dg' = [pc |-> IF FindSessionsByFactorID(fid) = <<>> THEN "update" ELSE "delete",
              f |-> fid, userID |-> factors[fid].user_id,
              factorType |-> factors[fid].factor_type,
              sessions |-> FindSessionsByFactorID(fid), i |-> 1,
              deleted |-> {}, res |-> Null]
    /\ raced' = FALSE
    /\ UNCHANGED <<now, claims, aal, sessFactor, factors, adders, nextId>>
    /\ UNCHANGED <<mailVars, factorVars>>

\* DowngradeSessionsToAAL1, lines 150-153: the session lookup fails
DowngradeLookupError(fid) ==
    /\ dg.pc = "idle"
    /\ dg' = [pc |-> "done", f |-> fid, userID |-> factors[fid].user_id,
              factorType |-> factors[fid].factor_type,
              sessions |-> <<>>, i |-> 1, deleted |-> {}, res |-> "err"]
    /\ raced' = FALSE
    /\ UNCHANGED <<now, claims, aal, sessFactor, factors, adders, nextId>>
    /\ UNCHANGED <<mailVars, factorVars>>

\* line 155 run on the committed store instead of the transaction
DowngradeDeleteOutsideTx ==
    /\ dg.pc = "delete"
    /\ claims' = claims \ RowsFor(claims, dg.sessions[dg.i], dg.factorType)
    /\ dg' = [dg EXCEPT !.i = @ + 1,
                        !.pc = IF dg.i + 1 > Len(dg.sessions) THEN "update" ELSE "delete"]
    /\ UNCHANGED <<now, aal, sessFactor, factors, adders, nextId, raced>>
    /\ UNCHANGED <<mailVars, factorVars>>

\* line 155 skips the sessions after the first
DowngradeDeleteFirstOnly ==
    /\ dg.pc = "delete"
    /\ dg' = [dg EXCEPT !.i = @ + 1,
                        !.deleted = IF dg.i = 1 /\ RowsFor(claims, dg.sessions[dg.i], dg.factorType) # {}
                                    THEN @ \cup {<<dg.sessions[dg.i], dg.factorType>>} ELSE @,
                        !.pc = IF dg.i + 1 > Len(dg.sessions) THEN "update" ELSE "delete"]
    /\ UNCHANGED <<now, claims, aal, sessFactor, factors, adders, nextId, raced>>
    /\ UNCHANGED <<mailVars, factorVars>>

\* line 155 with no method in its WHERE clause: every claim of the session goes
DowngradeDeleteAllMethods ==
    /\ dg.pc = "delete"
    /\ dg' = [dg EXCEPT !.i = @ + 1,
                        !.deleted = @ \cup {<<c.session_id, c.authentication_method>> :
                                               c \in {x \in claims :
                                                        x.session_id = dg.sessions[dg.i]}},
                        !.pc = IF dg.i + 1 > Len(dg.sessions) THEN "update" ELSE "delete"]
    /\ UNCHANGED <<now, claims, aal, sessFactor, factors, adders, nextId, raced>>
    /\ UNCHANGED <<mailVars, factorVars>>

\* line 155 with another method than the factor's type as its second argument
DowngradeDeleteWrongMethod ==
    /\ dg.pc = "delete"
    /\ dg' = [dg EXCEPT !.i = @ + 1,
                        !.deleted = IF RowsFor(claims, dg.sessions[dg.i], String(OTP)) # {}
                                    THEN @ \cup {<<dg.sessions[dg.i], String(OTP)>>} ELSE @,
                        !.pc = IF dg.i + 1 > Len(dg.sessions) THEN "update" ELSE "delete"]
    /\ UNCHANGED <<now, claims, aal, sessFactor, factors, adders, nextId, raced>>
    /\ UNCHANGED <<mailVars, factorVars>>

\* DowngradeSessionsToAAL1, lines 154-158: one iteration, the DELETE succeeds inside tx.
\* A row another open statement holds is waited for; here only this transaction deletes.
DowngradeDelete ==
    /\ dg.pc = "delete"
    /\ dg' = [dg EXCEPT !.i = @ + 1,
                        !.deleted = IF RowsFor(claims, dg.sessions[dg.i], dg.factorType) # {}
                                    THEN @ \cup {<<dg.sessions[dg.i], dg.factorType>>} ELSE @,
                        !.pc = IF dg.i + 1 > Len(dg.sessions) THEN "update" ELSE "delete"]
    /\ UNCHANGED <<now, claims, aal, sessFactor, factors, adders, nextId, raced>>
    /\ UNCHANGED <<mailVars, factorVars>>

\* DowngradeSessionsToAAL1, lines 155-157: the DELETE fails; the error is returned and the
\* caller's transaction rolls back (its write set, kept in dg.deleted, is discarded)
DowngradeDeleteError ==
    /\ dg.pc = "delete"
    /\ dg' = [dg EXCEPT !.pc = "done", !.res = "err"]
    /\ UNCHANGED <<now, claims, aal, sessFactor, factors, adders, nextId, raced>>
    /\ UNCHANGED <<mailVars, factorVars>>

\* DowngradeSessionsToAAL1, line 159: the update succeeds, nil is returned and the
\* caller's transaction commits
DowngradeUpdate ==
    /\ dg.pc = "update"
    /\ claims' = CommitDowngrade(claims, dg)
    /\ aal' = updateFactorAssociatedSessions(aal, dg.userID, dg.f, AAL1)
    /\ dg' = [dg EXCEPT !.pc = "done", !.res = "ok"]
    /\ UNCHANGED <<now, sessFactor, factors, adders, nextId, raced>>
    /\ UNCHANGED <<mailVars, factorVars>>

\* DowngradeSessionsToAAL1, line 159: the update fails; rollback
DowngradeUpdateError ==
    /\ dg.pc = "update"
    /\ dg' = [dg EXCEPT !.pc = "done", !.res = "err"]
    /\ UNCHANGED <<now, claims, aal, sessFactor, factors, adders, nextId, raced>>
    /\ UNCHANGED <<mailVars, factorVars>>

(* ------------------------------ factors ------------------------------- *)

\* a factor row: type Factor struct
Factor(userID, status, friendlyName, factorType) ==
    [user_id |-> userID, status |-> status, friendly_name |-> friendlyName,
     factor_type |-> factorType, updated_at |-> 0]

Updaters == {"w1", "w2"}

\* the ids looked up: the factors and one id no factor has
FactorIDs == Factors \cup {"f9"}

\* the values the callers pass to the Update* methods
FriendlyNames == {"", "phone"}
FactorStates == {FactorStateUnverified, FactorStateVerified}
FactorTypes == {TOTP, "webauthn"}

\* tx.UpdateOnly(f, columns...) on mfa_factors: updated_at of the record is set to the
\* current time, then the named columns of f's row take the record's values
FactorUpdateOnly(table, id, f, columns) ==
    [table EXCEPT ![id] =
        [c \in DOMAIN table[id] |-> IF c \in columns THEN f[c] ELSE table[id][c]]]

IdleUpdater ==
    [pc |-> "idle", id |-> Null, f |-> Factor(Null, "", "", ""), column |-> "",
     res |-> ""]

\* no lookup has run
NoLookup == [pc |-> "idle", id |-> Null, fault |-> FALSE, err |-> "", factor |-> Null]

\* findFactor, lines 96-106: the row, FactorNotFoundError for no rows, and the wrapped
\* storage error for any other failure
findFactor(table, factorID, fault) ==
    IF fault THEN [factor |-> Null, err |-> "Database error finding factor"]
    ELSE IF factorID \notin DOMAIN table
      THEN [factor |-> Null, err |-> "FactorNotFoundError"]
    ELSE [factor |-> factorID, err |-> ""]

\* FindFactorByFactorID, lines 88-94: every error of findFactor is returned as
\* FactorNotFoundError{}
FindFactorByFactorID(factorID, fault) ==
    /\ LET r == findFactor(factors, factorID, fault)
       IN  lookup' = [pc |-> "done", id |-> factorID, fault |-> fault,
                     err |-> IF r.err # "" THEN "FactorNotFoundError" ELSE "",
                     factor |-> IF r.err # "" THEN Null ELSE r.factor]
    /\ UNCHANGED <<now, ledgerVars, mailVars, updaters>>

\* a request reads the factor it is going to update
FactorLoad(w, id) ==
    /\ updaters[w].pc \in {"idle", "done"}
    /\ id \in DOMAIN factors
    /\ updaters' = [updaters EXCEPT ![w] =
          [IdleUpdater EXCEPT !.pc = "loaded", !.id = id, !.f = factors[id]]]
    /\ UNCHANGED <<now, ledgerVars, mailVars, lookup>>

\* the outcome of an Update* method: the record and the row after a successful write
Updated(w, column, value, columns) ==
    LET f == [updaters[w].f EXCEPT ![column] = value, !.updated_at = now]
    IN  /\ updaters[w].pc = "loaded"
        /\ updaters' = [updaters EXCEPT ![w] =
              [pc |-> "done", id |-> updaters[w].id, f |-> f, column |-> column,
               res |-> "ok"]]
        /\ factors' = FactorUpdateOnly(factors, updaters[w].id, f, columns)
        /\ UNCHANGED <<now, claims, aal, sessFactor, adders, nextId, dg, raced>>
        /\ UNCHANGED <<mailVars, lookup>>

\* UpdateFriendlyName, lines 120-123
UpdateFriendlyName(w, friendlyName) ==
    Updated(w, "friendly_name", friendlyName, {"friendly_name", "updated_at"})

\* tx.Update(f) in place of tx.UpdateOnly: every column of the record is written
UpdateStatusWholeRecord(w, status) ==
    Updated(w, "status", status,
            {"user_id", "status", "friendly_name", "factor_type", "updated_at"})

\* UpdateStatus, lines 126-129
UpdateStatus(w, status) ==
    Updated(w, "status", status, {"status", "updated_at"})

\* UpdateFactorType, lines 144-147
UpdateFactorType(w, factorType) ==
    Updated(w, "factor_type", factorType, {"factor_type", "updated_at"})

\* an Update* method whose tx.UpdateOnly fails: the record is changed, the row is not
UpdateError(w, column, value) ==
    /\ updaters[w].pc = "loaded"
    /\ updaters' = [updaters EXCEPT ![w] =
          [pc |-> "done", id |-> updaters[w].id,
           f |-> [updaters[w].f EXCEPT ![column] = value], column |-> column,
           res |-> "err"]]
    /\ UNCHANGED <<now, ledgerVars, mailVars, lookup>>

(* ------------------------------ clock --------------------------------- *)

\* the wall clock advances, up to the last instant of the specification
Tick(last) ==
    /\ now < last
    /\ now' = now + 1
    /\ UNCHANGED <<ledgerVars, mailVars, factorVars>>

(* ------------------------------ users and tokens ---------------------- *)

\* a nil *time.Time
NoTime == -1

\* the maxFrequency the callers pass, in clock ticks
MaxFrequency == 1

\* the confirm status of a fresh email change
zeroConfirmation == 0

Emails == {"a@x", "b@x"}
Requests == {"r1", "r2"}

\* crypto.GenerateOtp: a random code, taken to be one never issued before: the code of
\* the n-th operation
GenerateOtp(n) == ToString(n)

\* fmt.Sprintf("%x", sha256.Sum224(b)): a digest, distinct from its input
Sha224Hex(b) == "sha224(" \o b \o ")"

\* the token stored for an identifier and a one-time code
Derive(identifier, otp) == Sha224Hex(identifier \o otp)

\* a users row with nothing pending
NewUser(email, confirmed) ==
    [email |-> email, confirmed |-> confirmed, data |-> {}, identities |-> {},
     confirmation_token |-> "", confirmation_sent_at |-> NoTime, invited_at |-> NoTime,
     recovery_token |-> "", recovery_sent_at |-> NoTime,
     reauthentication_token |-> "", reauthentication_sent_at |-> NoTime,
     email_change |-> "", email_change_token_current |-> "",
     email_change_token_new |-> "", email_change_sent_at |-> NoTime,
     email_change_confirm_status |-> 0]

\* tx.UpdateOnly(u, columns...): the named columns of u's row take u's values
UpdateOnly(table, u, columns) ==
    [table EXCEPT ![u.email] =
        [f \in DOMAIN table[u.email] |-> IF f \in columns THEN u[f] ELSE table[u.email][f]]]

(* ------------------------------ send* flows --------------------------- *)

Flows == {"confirmation", "invite", "recovery", "magiclink", "reauthentication"}

\* the token field each flow sets
TokenField(flow) ==
    CASE flow \in {"confirmation", "invite"} -> "confirmation_token"
      [] flow \in {"recovery", "magiclink"} -> "recovery_token"
      [] flow = "reauthentication" -> "reauthentication_token"

\* sendMagicLink with the check and the stamp of sendConfirmation
SentAtFieldSeparateMagicLink(flow) ==
    CASE flow \in {"confirmation", "invite"} -> "confirmation_sent_at"
      [] flow = "recovery" -> "recovery_sent_at"
      [] flow = "magiclink" -> "confirmation_sent_at"
      [] flow = "reauthentication" -> "reauthentication_sent_at"

\* the sent-at field each flow checks and sets
SentAtField(flow) ==
    CASE flow \in {"confirmation", "invite"} -> "confirmation_sent_at"
      [] flow \in {"recovery", "magiclink"} -> "recovery_sent_at"
      [] flow = "reauthentication" -> "reauthentication_sent_at"

\* the flows that open with the frequency check (sendInvite has none)
Gated(flow) == flow # "invite"

\* tx.Update in place of tx.UpdateOnly: every column of the record is written
ColumnsWholeRecord(flow) ==
    {"email", "confirmed", "data", "identities", "confirmation_token",
     "confirmation_sent_at", "invited_at", "recovery_token", "recovery_sent_at",
     "reauthentication_token", "reauthentication_sent_at", "email_change",
     "email_change_token_current", "email_change_token_new", "email_change_sent_at",
     "email_change_confirm_status"}

\* the columns each flow hands to tx.UpdateOnly
Columns(flow) ==
    IF flow = "email_change"
    THEN {"email_change_token_current", "email_change_token_new", "email_change",
          "email_change_sent_at", "email_change_confirm_status"}
    ELSE {TokenField(flow), SentAtField(flow)}
         \cup (IF flow = "invite" THEN {"invited_at"} ELSE {})

\* the check with the boundary instant allowed
RateLimitedBeforeBoundary(sentAt, maxFrequency, t) ==
    sentAt # NoTime /\ t < sentAt + maxFrequency

\* u.XSentAt != nil && !u.XSentAt.Add(maxFrequency).Before(time.Now())
RateLimited(sentAt, maxFrequency, t) ==
    sentAt # NoTime /\ ~(sentAt + maxFrequency < t)

IdleRequest ==
    [pc |-> "idle", flow |-> "", u |-> NewUser("", FALSE), entry |-> NewUser("", FALSE),
     n |-> 0, oldToken |-> "", otp |-> "", nowT |-> NoTime, res |-> "", readAt |-> NoTime,
     email |-> "", secure |-> FALSE, otpCurrent |-> ""]

\* the function returns: its locals are gone, the caller holds the record and the result
\* (entry and readAt are history: the record as passed in, and the instant the frequency
\* check read from time.Now() when it refused)
Return(q, u, res) ==
    [IdleRequest EXCEPT !.pc = "done", !.flow = q.flow, !.u = u, !.entry = q.entry,
                        !.res = res, !.readAt = q.readAt, !.email = q.email,
                        !.secure = q.secure]

\* The caller looks the account up and hands its record to the flow; a request for
\* confirmation or invite of a confirmed account is refused as a duplicate.
SendStart(r, flow, e) ==
    /\ req[r].pc \in {"idle", "done"}
    /\ ops < MaxOps
    /\ e \in DOMAIN users
    /\ ops' = ops + 1
    /\ req' = [req EXCEPT ![r] =
          IF flow \in {"confirmation", "invite"} /\ users[e].confirmed
          THEN [IdleRequest EXCEPT !.pc = "done", !.flow = flow, !.u = users[e],
                                   !.entry = users[e], !.res = "Duplicate"]
          ELSE [IdleRequest EXCEPT !.pc = "called", !.flow = flow, !.u = users[e],
                                   !.entry = users[e], !.n = ops + 1]]
    /\ UNCHANGED <<now, ledgerVars, factorVars, users, mails, audit, resp>>

\* the token is generated before the frequency check
SendGateAfterGenerate(r) ==
    /\ req[r].pc = "called"
    /\ LET q == req[r]
           f == TokenField(q.flow)
           otp == GenerateOtp(q.n)
       IN  req' = [req EXCEPT ![r] =
             IF Gated(q.flow) /\ RateLimited(q.u[SentAtField(q.flow)], MaxFrequency, now)
             THEN Return([q EXCEPT !.readAt = now],
                         [q.u EXCEPT ![f] = Derive(q.u.email, otp)], "RateLimited")
             ELSE [q EXCEPT !.pc = "generated", !.oldToken = q.u[f], !.otp = otp,
                            !.u = [q.u EXCEPT ![f] = Derive(q.u.email, otp)]]]
    /\ UNCHANGED <<now, ledgerVars, factorVars, users, mails, ops, audit, resp>>

\* send*, e.g. sendConfirmation lines 225-233: the frequency check, then oldToken, the
\* one-time code and the new token on the record
SendGate(r) ==
    /\ req[r].pc = "called"
    /\ LET q == req[r]
           f == TokenField(q.flow)
           otp == GenerateOtp(q.n)
       IN  req' = [req EXCEPT ![r] =
             IF Gated(q.flow) /\ RateLimited(q.u[SentAtField(q.flow)], MaxFrequency, now)
             THEN Return([q EXCEPT !.readAt = now], q.u, "RateLimited")
             ELSE [q EXCEPT !.pc = "generated", !.oldToken = q.u[f], !.otp = otp,
                            !.u = [q.u EXCEPT ![f] = Derive(q.u.email, otp)]]]
    /\ UNCHANGED <<now, ledgerVars, factorVars, users, mails, ops, audit, resp>>

\* send*, e.g. lines 229-232: past the frequency check, crypto.GenerateOtp fails
SendOtpError(r) ==
    /\ req[r].pc = "called"
    /\ ~(Gated(req[r].flow)
         /\ RateLimited(req[r].u[SentAtField(req[r].flow)], MaxFrequency, now))
    /\ req' = [req EXCEPT ![r] = Return(req[r], req[r].u, "OtpError")]
    /\ UNCHANGED <<now, ledgerVars, factorVars, users, mails, ops, audit, resp>>

\* the mailer is handed the stored token instead of the one-time code
SendMailHashedToken(r) ==
    /\ req[r].pc = "generated"
    /\ req' = [req EXCEPT ![r].pc = "mailed", ![r].nowT = now]
    /\ mails' = Append(mails, [flow |-> req[r].flow, to |-> req[r].u.email,
                               otp |-> req[r].u[TokenField(req[r].flow)], at |-> now])
    /\ UNCHANGED <<now, ledgerVars, factorVars, users, ops, audit, resp>>

\* send*, e.g. lines 234-235: now := time.Now() and the mailer accepts the mail
SendMail(r) ==
    /\ req[r].pc = "generated"
    /\ req' = [req EXCEPT ![r].pc = "mailed", ![r].nowT = now]
    /\ mails' = Append(mails, [flow |-> req[r].flow, to |-> req[r].u.email,
                               otp |-> req[r].otp, at |-> now])
    /\ UNCHANGED <<now, ledgerVars, factorVars, users, ops, audit, resp>>

\* the failure branch without the restore of the old token
SendMailErrorWithoutRestore(r) ==
    /\ req[r].pc = "generated"
    /\ req' = [req EXCEPT ![r] = Return(req[r], req[r].u, "MailError")]
    /\ UNCHANGED <<now, ledgerVars, factorVars, users, mails, ops, audit, resp>>

\* send*, e.g. lines 234-238: the mailer fails; the old token is put back and the error returned
SendMailError(r) ==
    /\ req[r].pc = "generated"
    /\ req' = [req EXCEPT ![r] =
          Return(req[r], [req[r].u EXCEPT ![TokenField(req[r].flow)] = req[r].oldToken],
                 "MailError")]
    /\ UNCHANGED <<now, ledgerVars, factorVars, users, mails, ops, audit, resp>>

\* the record after the assignments that follow a successful dispatch
Stamped(q) ==
    [f \in DOMAIN q.u |->
        IF f = SentAtField(q.flow) \/ (q.flow = "invite" /\ f = "invited_at")
        THEN q.nowT ELSE q.u[f]]

\* send*, e.g. lines 239-240: sent-at is set and tx.UpdateOnly succeeds
SendPersist(r) ==
    /\ req[r].pc = "mailed"
    /\ req' = [req EXCEPT ![r] = Return(req[r], Stamped(req[r]), "ok")]
    /\ users' = UpdateOnly(users, Stamped(req[r]), Columns(req[r].flow))
    /\ UNCHANGED <<now, ledgerVars, factorVars, mails, ops, audit, resp>>

\* send*, e.g. lines 239-240: tx.UpdateOnly fails and the wrapped error is returned
SendPersistError(r) ==
    /\ req[r].pc = "mailed"
    /\ req' = [req EXCEPT ![r] = Return(req[r], Stamped(req[r]), "DbError")]
    /\ UNCHANGED <<now, ledgerVars, factorVars, users, mails, ops, audit, resp>>

(* ------------------------------ sendEmailChange ----------------------- *)

\* the new addresses a change is requested to
NewEmails == {"c@x", "d@x"}

\* The caller looks the account up and hands its record, the requested address and the
\* configuration (config.Mailer.SecureEmailChangeEnabled) to sendEmailChange.
EmailChangeStart(r, e, email, secure) ==
    /\ req[r].pc \in {"idle", "done"}
    /\ ops < MaxOps
    /\ e \in DOMAIN users
    /\ email \notin DOMAIN users
    /\ ops' = ops + 1
    /\ req' = [req EXCEPT ![r] =
          [IdleRequest EXCEPT !.pc = "ec_called", !.flow = "email_change", !.u = users[e],
                              !.entry = users[e], !.n = ops + 1, !.email = email,
                              !.secure = secure]]
    /\ UNCHANGED <<now, ledgerVars, factorVars, users, mails, audit, resp>>

\* sendEmailChange, lines 331-334: the first crypto.GenerateOtp fails
EmailChangeOtpError(r) ==
    /\ req[r].pc = "ec_called"
    /\ req' = [req EXCEPT ![r] = Return(req[r], req[r].u, "OtpError")]
    /\ UNCHANGED <<now, ledgerVars, factorVars, users, mails, ops, audit, resp>>

\* sendEmailChange, lines 331-343: the token for the new address is on the record and the
\* second crypto.GenerateOtp fails
EmailChangeOtpCurrentError(r) ==
    /\ req[r].pc = "ec_called"
    /\ req[r].secure /\ req[r].u.email # ""
    /\ LET q == req[r]
           otpNew == GenerateOtp(q.n)
       IN  req' = [req EXCEPT ![r] =
             Return(q, [q.u EXCEPT !.email_change_token_new =
                                      Sha224Hex(q.u.email_change \o otpNew)],
                    "OtpError")]
    /\ UNCHANGED <<now, ledgerVars, factorVars, users, mails, ops, audit, resp>>

\* sendEmailChange, lines 331-349: both codes and tokens, then the pending address and
\* the confirm status; the token for the new address is taken over u.EmailChange as it is
\* at line 335, before line 348 assigns the requested address
EmailChangeGenerate(r) ==
    /\ req[r].pc = "ec_called"
    /\ LET q == req[r]
           otpNew == GenerateOtp(q.n)
           withCurrent == q.secure /\ q.u.email # ""
           otpCurrent == IF withCurrent THEN GenerateOtp(0 - q.n) ELSE ""
           u1 == [q.u EXCEPT !.email_change_token_new =
                                 Sha224Hex(q.u.email_change \o otpNew)]
           u2 == IF withCurrent
                 THEN [u1 EXCEPT !.email_change_token_current =
                                     Sha224Hex(u1.email \o otpCurrent)]
                 ELSE u1
           u3 == [u2 EXCEPT !.email_change = q.email,
                            !.email_change_confirm_status = zeroConfirmation]
       IN  req' = [req EXCEPT ![r] =
             [q EXCEPT !.pc = "ec_generated", !.otp = otpNew, !.otpCurrent = otpCurrent,
                       !.u = u3]]
    /\ UNCHANGED <<now, ledgerVars, factorVars, users, mails, ops, audit, resp>>

\* sendEmailChange, lines 350-351: now := time.Now() and the mailer accepts the mail
EmailChangeMail(r) ==
    /\ req[r].pc = "ec_generated"
    /\ req' = [req EXCEPT ![r].pc = "ec_mailed", ![r].nowT = now]
    /\ mails' = Append(mails, [flow |-> "email_change", to |-> req[r].u.email,
                               otp |-> req[r].otp, at |-> now,
                               new_email |-> req[r].u.email_change,
                               otp_current |-> req[r].otpCurrent])
    /\ UNCHANGED <<now, ledgerVars, factorVars, users, ops, audit, resp>>

\* sendEmailChange, lines 351-353: the mailer fails and the error is returned as it is
EmailChangeMailError(r) ==
    /\ req[r].pc = "ec_generated"
    /\ req' = [req EXCEPT ![r] = Return(req[r], req[r].u, "MailError")]
    /\ UNCHANGED <<now, ledgerVars, factorVars, users, mails, ops, audit, resp>>

\* sendEmailChange, lines 355-363: sent-at is set and tx.UpdateOnly succeeds
EmailChangePersist(r) ==
    /\ req[r].pc = "ec_mailed"
    /\ LET u == [req[r].u EXCEPT !.email_change_sent_at = req[r].nowT]
       IN  /\ req' = [req EXCEPT ![r] =
                [Return(req[r], u, "ok") EXCEPT !.otp = req[r].otp,
                                                !.otpCurrent = req[r].otpCurrent]]
           /\ users' = UpdateOnly(users, u, Columns("email_change"))
    /\ UNCHANGED <<now, ledgerVars, factorVars, mails, ops, audit, resp>>

\* sendEmailChange, lines 355-363: tx.UpdateOnly fails and the wrapped error is returned
EmailChangePersistError(r) ==
    /\ req[r].pc = "ec_mailed"
    /\ LET u == [req[r].u EXCEPT !.email_change_sent_at = req[r].nowT]
       IN  req' = [req EXCEPT ![r] = Return(req[r], u, "DbError")]
    /\ UNCHANGED <<now, ledgerVars, factorVars, users, mails, ops, audit, resp>>

(* ------------------------------ GenerateLink -------------------------- *)

LinkTypes ==
    {"signup", "invite", "magiclink", "recovery", "email_change_current",
     "email_change_new", "other"}

\* config.PasswordMinLength
PasswordMinLength == 6

\* no account: a nil *models.User
NoUser == NewUser("", FALSE)

\* strings.ToLower on the addresses of the model
ToLower(s) == IF s = "A@x" THEN "a@x" ELSE IF s = "C@x" THEN "c@x" ELSE s

\* password.Generate(64, 10, 0, false, true)
GeneratedPassword == "0123456789abcdefghijklmnopqrstuvwxyzABCDEFGHIJKLMNOPQRSTUVWXYZ01"

NoResponse ==
    [status |-> "", type |-> "", email |-> "", user |-> NoUser, action_link |-> "",
     email_otp |-> "", hashed_token |-> "", fault |-> ""]

\* an error return: no body fields
ErrorResponse(status, type, email) ==
    [NoResponse EXCEPT !.status = status, !.type = type, !.email = email]

\* the outcome of the function run by db.Transaction: the tables as the function's
\* statements left them inside the transaction, and its error (err # "" aborts it)
TxOk(table, log, user) == [err |-> "", users |-> table, audit |-> log, user |-> user]
TxFail(err, table, log) == [err |-> err, users |-> table, audit |-> log, user |-> NoUser]

\* signupNewUser: a new unconfirmed account
signupNewUser(table, email, data) ==
    [e \in DOMAIN table \cup {email} |->
        IF e = email THEN [NewUser(email, FALSE) EXCEPT !.data = data] ELSE table[e]]

\* createNewIdentity: the account's primary identity
createNewIdentity(table, email, provider) ==
    [table EXCEPT ![email].identities = @ \cup {provider}]

\* User.UpdateUserMetaData: the given keys are merged into the stored metadata
UpdateUserMetaData(table, email, data) ==
    [table EXCEPT ![email].data = @ \cup data]

\* models.IsDuplicatedEmail: an account of the audience has the address
IsDuplicatedEmail(table, email) == email \in DOMAIN table

\* lines 95-101
RecoveryCase(user, hashedToken, t, fault) ==
    IF fault = "audit" THEN TxFail("DbError", users, audit)
    ELSE LET log == Append(audit, "user_recovery_requested")
             u == [user EXCEPT !.recovery_token = hashedToken, !.recovery_sent_at = t]
         IN  IF fault = "update" THEN TxFail("DbError", users, log)
             ELSE TxOk(UpdateOnly(users, u, {"recovery_token", "recovery_sent_at"}), log, u)

\* lines 102-133 without the IsConfirmed check of lines 103-106
InviteCaseWithoutConfirmedCheck(user, email, data, hashedToken, t, fault) ==
    IF user = NoUser /\ fault = "signup" THEN TxFail("DbError", users, audit)
    ELSE IF user = NoUser /\ fault = "identity"
      THEN TxFail("DbError", signupNewUser(users, email, data), audit)
    ELSE LET table == IF user # NoUser THEN users
                      ELSE createNewIdentity(signupNewUser(users, email, data), email, "email")
             log == Append(audit, "user_invited")
             u == [table[email] EXCEPT !.confirmation_token = hashedToken,
                                       !.confirmation_sent_at = t, !.invited_at = t]
         IN  IF fault = "audit" THEN TxFail("DbError", table, audit)
             ELSE IF fault = "update" THEN TxFail("DbError", table, log)
             ELSE TxOk(UpdateOnly(table, u,
                           {"confirmation_token", "confirmation_sent_at", "invited_at"}),
                       log, u)

\* lines 102-133
InviteCase(user, email, data, hashedToken, t, fault) ==
    IF user # NoUser /\ user.confirmed THEN TxFail("Duplicate", users, audit)
    ELSE IF user = NoUser /\ fault = "signup" THEN TxFail("DbError", users, audit)
    ELSE IF user = NoUser /\ fault = "identity"
      THEN TxFail("DbError", signupNewUser(users, email, data), audit)
    ELSE LET table == IF user # NoUser THEN users
                      ELSE createNewIdentity(signupNewUser(users, email, data), email, "email")
             log == Append(audit, "user_invited")
             u == [table[email] EXCEPT !.confirmation_token = hashedToken,
                                       !.confirmation_sent_at = t, !.invited_at = t]
         IN  IF fault = "audit" THEN TxFail("DbError", table, audit)
             ELSE IF fault = "update" THEN TxFail("DbError", table, log)
             ELSE TxOk(UpdateOnly(table, u,
                           {"confirmation_token", "confirmation_sent_at", "invited_at"}),
                       log, u)

\* lines 134-168
SignupCase(user, email, password, data, hashedToken, t, fault) ==
    IF user # NoUser /\ user.confirmed THEN TxFail("Duplicate", users, audit)
    ELSE IF user # NoUser /\ fault = "metadata" THEN TxFail("DbError", users, audit)
    ELSE IF user = NoUser /\ password = "" THEN TxFail("Validation", users, audit)
    ELSE IF user = NoUser /\ Len(password) < PasswordMinLength
      THEN TxFail("Validation", users, audit)
    ELSE IF user = NoUser /\ fault = "signup" THEN TxFail("DbError", users, audit)
    ELSE IF user = NoUser /\ fault = "identity"
      THEN TxFail("DbError", signupNewUser(users, email, data), audit)
    ELSE LET table == IF user # NoUser THEN UpdateUserMetaData(users, email, data)
                      ELSE createNewIdentity(signupNewUser(users, email, data), email, "email")
             u == [table[email] EXCEPT !.confirmation_token = hashedToken,
                                       !.confirmation_sent_at = t]
         IN  IF fault = "update" THEN TxFail("DbError", table, audit)
             ELSE TxOk(UpdateOnly(table, u, {"confirmation_token", "confirmation_sent_at"}),
                       audit, u)

\* lines 169-191
EmailChangeCase(user, type, newEmail, secure, otp, hashedToken, t, fault) ==
    IF ~secure /\ type = "email_change_current" THEN TxFail("Validation", users, audit)
    ELSE IF newEmail = "" \/ fault = "validate" THEN TxFail("Validation", users, audit)
    ELSE IF fault = "dupcheck" THEN TxFail("DbError", users, audit)
    ELSE IF IsDuplicatedEmail(users, ToLower(newEmail)) THEN TxFail("Duplicate", users, audit)
    ELSE LET u == [user EXCEPT
                     !.email_change_sent_at = t,
                     !.email_change = ToLower(newEmail),
                     !.email_change_confirm_status = zeroConfirmation,
                     !.email_change_token_current =
                         IF type = "email_change_current" THEN hashedToken ELSE @,
                     !.email_change_token_new =
                         IF type = "email_change_new"
                         THEN Sha224Hex(ToLower(newEmail) \o otp) ELSE @]
         IN  IF fault = "update" THEN TxFail("DbError", users, audit)
             ELSE TxOk(UpdateOnly(users, u,
                           {"email_change_token_current", "email_change_token_new",
                            "email_change", "email_change_sent_at",
                            "email_change_confirm_status"}),
                       audit, u)

\* lines 92-205: the function run by db.Transaction
LinkTx(user, type, email, newEmail, password, data, secure, otp, hashedToken, t, fault) ==
    LET r == CASE type \in {"magiclink", "recovery"} ->
                      RecoveryCase(user, hashedToken, t, fault)
               [] type = "invite" ->
                      InviteCase(user, email, data, hashedToken, t, fault)
               [] type = "signup" ->
                      SignupCase(user, email, password, data, hashedToken, t, fault)
               [] type \in {"email_change_current", "email_change_new"} ->
                      EmailChangeCase(user, type, newEmail, secure, otp, hashedToken, t, fault)
               [] OTHER -> TxFail("BadRequest", users, audit)
    IN  IF r.err = "" /\ fault = "link" THEN TxFail("LinkError", r.users, r.audit) ELSE r

\* the points at which a collaborator of GenerateLink can fail
Faults ==
    {"none", "validate", "find", "pwgen", "otp", "audit", "signup", "identity", "metadata",
     "dupcheck", "update", "link"}

\* the statements of lines 92-205 run on db instead of inside db.Transaction: what they
\* wrote before the error stays
LinkOutcomeWithoutTransaction(type, email, newEmail, password, data, secure, fault, n, t) ==
    LET e == ToLower(email)
        found == e \in DOMAIN users
        user == IF found THEN users[e] ELSE NoUser
        type2 == IF ~found /\ type = "magiclink" THEN "signup" ELSE type
        password2 == IF ~found /\ type = "magiclink" THEN GeneratedPassword ELSE password
        otp == GenerateOtp(n)
        hashedToken == Sha224Hex(e \o otp)
        tx == LinkTx(user, type2, e, newEmail, password2, data, secure, otp, hashedToken, t,
                     fault)
        keep(status) == [users |-> users, audit |-> audit,
                         resp |-> ErrorResponse(status, type, e)]
    IN  IF email = ""
           \/ (fault = "validate" /\ type \notin {"email_change_current", "email_change_new"})
          THEN keep("Validation")
        ELSE IF fault = "find" THEN keep("DbError")
        ELSE IF ~found /\ type = "magiclink" /\ fault = "pwgen" THEN keep("InternalError")
        ELSE IF ~found /\ type \in {"recovery", "email_change_current", "email_change_new"}
          THEN keep("NotFound")
        ELSE IF fault = "otp" THEN keep("OtpError")
        ELSE IF tx.err # "" THEN [users |-> tx.users, audit |-> tx.audit,
                                 resp |-> ErrorResponse(tx.err, type, e)]
        ELSE [users |-> tx.users, audit |-> tx.audit,
              resp |-> [status |-> "ok", type |-> type2, email |-> e, user |-> tx.user,
                        action_link |-> "link", email_otp |-> otp,
                        hashed_token |-> hashedToken, fault |-> ""]]

\* lines 43-221: the outcome of one call: the committed tables and the response; an error
\* of the function run by db.Transaction (lines 207-209) discards what it wrote
LinkOutcome(type, email, newEmail, password, data, secure, fault, n, t) ==
    LET e == ToLower(email)
        found == e \in DOMAIN users
        user == IF found THEN users[e] ELSE NoUser
        type2 == IF ~found /\ type = "magiclink" THEN "signup" ELSE type
        password2 == IF ~found /\ type = "magiclink" THEN GeneratedPassword ELSE password
        otp == GenerateOtp(n)
        hashedToken == Sha224Hex(e \o otp)
        tx == LinkTx(user, type2, e, newEmail, password2, data, secure, otp, hashedToken, t,
                     fault)
        keep(status) == [users |-> users, audit |-> audit,
                         resp |-> ErrorResponse(status, type, e)]
    IN  IF email = ""
           \/ (fault = "validate" /\ type \notin {"email_change_current", "email_change_new"})
          THEN keep("Validation")
        ELSE IF fault = "find" THEN keep("DbError")
        ELSE IF ~found /\ type = "magiclink" /\ fault = "pwgen" THEN keep("InternalError")
        ELSE IF ~found /\ type \in {"recovery", "email_change_current", "email_change_new"}
          THEN keep("NotFound")
        ELSE IF fault = "otp" THEN keep("OtpError")
        ELSE IF tx.err # "" THEN keep(tx.err)
        ELSE [users |-> tx.users, audit |-> tx.audit,
              resp |-> [status |-> "ok", type |-> type2, email |-> e, user |-> tx.user,
                        action_link |-> "link", email_otp |-> otp,
                        hashed_token |-> hashedToken, fault |-> ""]]

\* GenerateLink, lines 43-221
GenerateLink(params, secure, fault) ==
    /\ ops < MaxOps
    /\ ops' = ops + 1
    /\ LET out == LinkOutcome(params.type, params.email, params.new_email, params.password,
                              params.data, secure, fault, ops + 1, now)
       IN  /\ users' = out.users
           /\ audit' = out.audit
           /\ resp' = [out.resp EXCEPT !.fault = fault]
    /\ UNCHANGED <<now, ledgerVars, factorVars, req, mails>>

\* type GenerateLinkParams struct
GenerateLinkParams(type, email, newEmail, password) ==
    [type |-> type, email |-> email, new_email |-> newEmail, password |-> password,
     data |-> {"k"}]

\* the request bodies tried: for the account "a@x" (written "A@x") every type, with email
\* changes to an empty, a taken and a free address; for the unknown "b@x" an invite, a
\* magic link, a recovery and sign-ups with an empty, a short and a long enough password;
\* and one body with no email
LinkBodies ==
    {GenerateLinkParams(ty, e, "", "") :
        ty \in {"invite", "magiclink", "recovery"}, e \in {"A@x", "b@x"}}
    \cup {GenerateLinkParams("signup", "b@x", "", pw) : pw \in {"", "abc", "abcdef"}}
    \cup {GenerateLinkParams(ty, "A@x", ne, "") :
            ty \in {"email_change_current", "email_change_new"}, ne \in {"", "a@x", "C@x"}}
    \cup {GenerateLinkParams("signup", "A@x", "", ""),
          GenerateLinkParams("other", "A@x", "", ""),
          GenerateLinkParams("signup", "", "", "abcdef")}

\* the collaborators a call of each type can reach
FaultsOf(type) ==
    {"none", "validate", "find", "otp", "update", "link"}
    \cup (IF type \in {"magiclink", "recovery", "invite"} THEN {"audit"} ELSE {})
    \cup (IF type = "magiclink" THEN {"pwgen"} ELSE {})
    \cup (IF type \in {"magiclink", "invite", "signup"} THEN {"signup", "identity"} ELSE {})
    \cup (IF type = "signup" THEN {"metadata"} ELSE {})
    \cup (IF type \in {"email_change_current", "email_change_new"} THEN {"dupcheck"} ELSE {})

\* no mail operation has run: one unconfirmed account
MailQuiet ==
    /\ users = [e \in {"a@x"} |-> NewUser(e, FALSE)]
    /\ req = [r \in Requests |-> IdleRequest]
    /\ mails = <<>>
    /\ ops = 0
    /\ audit = <<>>
    /\ resp = NoResponse

\* the account "a@x" exists, confirmed or not; "b@x" has no account
InitMailState ==
    /\ users \in {[e \in {"a@x"} |-> NewUser(e, c)] : c \in BOOLEAN}
    /\ req = [r \in Requests |-> IdleRequest]
    /\ mails = <<>>
    /\ ops = 0
    /\ audit = <<>>
    /\ resp = NoResponse

(* ------------------------------ ledger specification ------------------ *)

SessionIndex == [s \in Sessions |-> CASE s = "s1" -> 1 [] s = "s2" -> 2 [] OTHER -> 3]

\* factors a session may be bound to: those of its own user
BindableFactors(s) == {f \in Factors : (IF f = "f1" THEN "u1" ELSE "u2") = SessionUser[s]}

\* Every session was opened with a password grant and holds that claim. Sessions that
\* completed a second-factor step are bound to the factor, hold its claim and are at
\* aal2; all others are at aal1. A bound session may be one an earlier downgrade has
\* already brought back: still bound, at aal1 and without the factor's claim.
InitLedger ==
    /\ factors = [f \in Factors |->
          Factor(IF f = "f1" THEN "u1" ELSE "u2", FactorStateVerified, "", TOTP)]
    /\ sessFactor \in {sf \in [Sessions -> Factors \cup {Null}] :
          /\ \A s \in Sessions : sf[s] = Null \/ sf[s] \in BindableFactors(s)
          /\ sf["s1"] # Null /\ sf["s3"] # Null}
    /\ aal \in {[s \in Sessions |->
                    IF sessFactor[s] = Null \/ s \in lapsed THEN AAL1 ELSE AAL2] :
                 lapsed \in SUBSET {s \in {"s2"} : sessFactor[s] # Null}}
    /\ claims = {AMRClaim(100 + SessionIndex[s], s, 0, 0, String(PasswordGrant)) :
                    s \in Sessions}
                \cup {AMRClaim(200 + SessionIndex[s], s, 0, 0,
                               factors[sessFactor[s]].factor_type) :
                         s \in {x \in Sessions : aal[x] = AAL2}}
    /\ adders = [a \in Adders |-> IdleAdder]
    /\ nextId = 1
    /\ dg = IdleDowngrade
    /\ raced = FALSE

\* the ledger at rest: nothing bound
LedgerQuiet ==
    /\ factors = [f \in Factors |->
          Factor(IF f = "f1" THEN "u1" ELSE "u2", FactorStateVerified, "", TOTP)]
    /\ sessFactor = [s \in Sessions |-> Null]
    /\ aal = [s \in Sessions |-> AAL1]
    /\ claims = {}
    /\ adders = [a \in Adders |-> IdleAdder]
    /\ nextId = 1
    /\ dg = IdleDowngrade
    /\ raced = FALSE

\* no factor request has run
FactorQuiet ==
    /\ updaters = [w \in Updaters |-> IdleUpdater]
    /\ lookup = NoLookup

Init ==
    /\ now = 0
    /\ InitLedger
    /\ MailQuiet
    /\ FactorQuiet

Next ==
    \/ Tick(MaxTime)
    \/ \E a \in Adders, s \in Sessions, am \in UsedMethods : AddCall(a, s, am)
    \/ \E a \in Adders : AddCallIdError(a)
    \/ \E a \in Adders : AddExec(a)
    \/ \E a \in Adders : AddExecError(a)
    \/ \E f \in Factors : DowngradeBegin(f)
    \/ \E f \in Factors : DowngradeLookupError(f)
    \/ DowngradeDelete
    \/ DowngradeDeleteError
    \/ DowngradeUpdate
    \/ DowngradeUpdateError

Spec == Init /\ [][Next]_vars

(* ------------------------------ factor specification ------------------ *)

\* the factors of the two users, one freshly enrolled or verified, the other verified
InitFactor ==
    /\ now = 0
    /\ factors \in {[f \in Factors |->
                       Factor(IF f = "f1" THEN "u1" ELSE "u2",
                              IF f = "f1" THEN st ELSE FactorStateVerified, "", TOTP)] :
                    st \in FactorStates}
    /\ sessFactor = [s \in Sessions |-> Null]
    /\ aal = [s \in Sessions |-> AAL1]
    /\ claims = {}
    /\ adders = [a \in Adders |-> IdleAdder]
    /\ nextId = 1
    /\ dg = IdleDowngrade
    /\ raced = FALSE
    /\ MailQuiet
    /\ FactorQuiet

NextFactor ==
    \/ Tick(MaxTime)
    \/ \E id \in FactorIDs, fault \in BOOLEAN : FindFactorByFactorID(id, fault)
    \/ \E w \in Updaters : FactorLoad(w, "f1")
    \/ \E w \in Updaters, friendlyName \in FriendlyNames : UpdateFriendlyName(w, friendlyName)
    \/ \E w \in Updaters, status \in FactorStates : UpdateStatus(w, status)
    \/ \E w \in Updaters, factorType \in FactorTypes : UpdateFactorType(w, factorType)
    \/ \E w \in Updaters, status \in FactorStates : UpdateError(w, "status", status)

SpecFactor == InitFactor /\ [][NextFactor]_vars

(* ------------------------------ mail specification -------------------- *)

InitMail ==
    /\ now = 0
    /\ LedgerQuiet
    /\ InitMailState
    /\ FactorQuiet

NextMail ==
    \/ Tick(MaxMailTime)
    \/ \E r \in Requests, flow \in Flows, e \in Emails : SendStart(r, flow, e)
    \/ \E r \in Requests : SendGate(r)
    \/ \E r \in Requests : SendOtpError(r)
    \/ \E r \in Requests : SendMail(r)
    \/ \E r \in Requests : SendMailError(r)
    \/ \E r \in Requests : SendPersist(r)
    \/ \E r \in Requests : SendPersistError(r)

SpecMail == InitMail /\ [][NextMail]_vars

(* ------------------------------ email change specification ----------- *)

\* a send* flow in one request and sendEmailChange in another, at the same time
NextChange ==
    \/ Tick(MaxTime)
    \/ \E flow \in Flows, e \in Emails : SendStart("r1", flow, e)
    \/ SendGate("r1")
    \/ SendOtpError("r1")
    \/ SendMail("r1")
    \/ SendMailError("r1")
    \/ SendPersist("r1")
    \/ SendPersistError("r1")
    \/ \E e \in Emails, email \in NewEmails, secure \in BOOLEAN :
          EmailChangeStart("r2", e, email, secure)
    \/ EmailChangeOtpError("r2")
    \/ EmailChangeOtpCurrentError("r2")
    \/ EmailChangeGenerate("r2")
    \/ EmailChangeMail("r2")
    \/ EmailChangeMailError("r2")
    \/ EmailChangePersist("r2")
    \/ EmailChangePersistError("r2")

SpecChange == InitMail /\ [][NextChange]_vars

(* ------------------------------ link specification -------------------- *)

\* GenerateLink calls and the send* flows of one request at a time
NextLink ==
    \/ Tick(MaxTime)
    \/ \E params \in LinkBodies, secure \in BOOLEAN :
          \E fault \in FaultsOf(params.type) :
            /\ (params.type \notin {"email_change_current", "email_change_new"} => secure)
            /\ GenerateLink(params, secure, fault)
    \/ \E flow \in {"confirmation", "invite"}, e \in Emails : SendStart("r1", flow, e)
    \/ SendGate("r1")
    \/ SendOtpError("r1")
    \/ SendMail("r1")
    \/ SendMailError("r1")
    \/ SendPersist("r1")
    \/ SendPersistError("r1")

SpecLink == InitMail /\ [][NextLink]_vars

(* ------------------------------ properties: AMR ledger ---------------- *)

AtMostOneClaimPerPair ==
    \A c1, c2 \in claims :
        (c1.session_id = c2.session_id /\ c1.authentication_method = c2.authentication_method)
            => c1 = c2

\* a step in which adder a's statement executes successfully
AddExecuted(a) ==
    adders[a].pc = "sampled" /\ adders'[a].pc = "done" /\ adders'[a].res = "ok"

\* C1: in every reachable state the ledger holds at most one row per
\* (session_id, authentication_method), and right after any AddClaimToSession statement
\* for a pair has executed, whatever the interleaving, it holds exactly one row for it.
C1_OneClaimPerPair ==
    /\ [][AtMostOneClaimPerPair /\ AtMostOneClaimPerPair']_vars
    /\ [][\A a \in Adders : AddExecuted(a) =>
            Cardinality(RowsFor(claims', adders[a].session, adders[a].method)) = 1]_vars

\* two racing calls for one pair have both completed and one row, updated once, remains
C1_Witness ==
    \E a, b \in Adders :
        /\ a # b
        /\ adders[a].pc = "done" /\ adders[a].res = "ok"
        /\ adders[b].pc = "done" /\ adders[b].res = "ok"
        /\ adders[a].session = adders[b].session /\ adders[a].method = adders[b].method
        /\ \E c \in claims :
              /\ RowsFor(claims, adders[a].session, adders[a].method) = {c}
              /\ c.updated_at > c.created_at

\* C2: once every AddClaimToSession call has completed, the row of a pair carries an
\* updated_at no earlier than the invocation time of each completed call for that pair.
C2_UpdatedAtIsMostRecentUse ==
    (\A b \in Adders : adders[b].pc \in {"idle", "done"}) =>
        \A a \in Adders :
            (adders[a].pc = "done" /\ adders[a].res = "ok") =>
                \A c \in RowsFor(claims, adders[a].session, adders[a].method) :
                    c.updated_at >= adders[a].currentTime

(* ------------------------------ properties: downgrade ----------------- *)

\* the sessions bound to the factor the downgrade runs on
BoundSessions == {s \in Sessions : sessFactor[s] = dg.f}

\* the step in which the downgrade returns success
DowngradeSucceeds == dg.pc = "update" /\ dg'.pc = "done" /\ dg'.res = "ok"

\* C4: when DowngradeSessionsToAAL1 on F (of type T) returns success and no other
\* operation ran in between, no session bound to F holds a claim of method T and every
\* one of them is at AAL1.
C4_DowngradeCompleteness ==
    [][(DowngradeSucceeds /\ ~raced) =>
          \A s \in BoundSessions :
              /\ RowsFor(claims', s, dg.factorType) = {}
              /\ aal'[s] = AAL1]_vars

\* a downgrade over two bound sessions has succeeded and removed both their claims
C4_Witness ==
    /\ dg.pc = "done" /\ dg.res = "ok" /\ ~raced
    /\ Len(dg.sessions) >= 2
    /\ Cardinality(dg.deleted) >= 2
    /\ \A s \in BoundSessions : RowsFor(claims, s, dg.factorType) = {} /\ aal[s] = AAL1

\* C5: every step of DowngradeSessionsToAAL1 other than its successful return leaves the
\* committed claims and assurance levels as they were: a failing lookup, delete or update
\* ends with nothing modified, and no partly downgraded state is ever visible.
C5_DowngradeAllOrNothing ==
    [][(dg' # dg /\ dg'.res # "ok") => (claims' = claims /\ aal' = aal)]_vars

\* the downgrade failed after a delete had succeeded inside its transaction, and the
\* deleted claims and the elevated levels are all still there
C5_Witness ==
    /\ dg.pc = "done" /\ dg.res = "err"
    /\ dg.deleted # {}
    /\ \A k \in dg.deleted : RowsFor(claims, k[1], k[2]) # {} /\ aal[k[1]] = AAL2

(* ------------------------------ properties: ledger frames ------------- *)

\* the claims a downgrade of the factor dg.f (type dg.factorType) is to remove
DowngradeTargets ==
    {c \in claims : sessFactor[c.session_id] = dg.f
                    /\ c.authentication_method = dg.factorType}

\* C15: DowngradeSessionsToAAL1 on F of type T removes only claims (s, T) of sessions s
\* bound to F: claims of other methods on those sessions, and every claim and assurance
\* level of sessions not bound to F, of the same or another user, stay as they are; its
\* other steps change no claim and no level.
C15_DowngradeFrame ==
    [][(dg' # dg) =>
          IF DowngradeSucceeds
          THEN /\ claims' \subseteq claims
               /\ (claims \ claims') \subseteq DowngradeTargets
               /\ \A s \in Sessions : sessFactor[s] # dg.f => aal'[s] = aal[s]
          ELSE claims' = claims /\ aal' = aal]_vars

\* a downgrade of f1 has succeeded: the password claims of its sessions, and the totp
\* claim and the elevated level of the session of the other user, are still there
C15_Witness ==
    /\ dg.pc = "done" /\ dg.res = "ok" /\ dg.f = "f1" /\ dg.deleted # {}
    /\ \A s \in BoundSessions :
          RowsFor(claims, s, String(PasswordGrant)) # {} /\ RowsFor(claims, s, TOTP) = {}
    /\ sessFactor["s3"] = "f2"
    /\ RowsFor(claims, "s3", TOTP) # {} /\ aal["s3"] = AAL2

\* C16: a successful AddClaimToSession on a pair that has a row changes that row's
\* updated_at and nothing else (id, session_id, authentication_method and created_at stay,
\* and so does every other row); on a pair with no row it adds one row with
\* created_at = updated_at and changes no other.
C16_AddClaimFrame ==
    [][\A a \in Adders :
          AddExecuted(a) =>
              LET s == adders[a].session
                  m == adders[a].method
                  old == RowsFor(claims, s, m)
                  new == RowsFor(claims', s, m)
              IN  /\ claims' \ new = claims \ old
                  /\ old # {} =>
                        \A c \in old :
                            new = {[c EXCEPT !.updated_at = adders[a].currentTime]}
                  /\ old = {} =>
                        \E c \in new :
                            /\ new = {c}
                            /\ c.created_at = c.updated_at
                            /\ c.created_at = adders[a].currentTime]_vars

\* a second use of a pair has moved the row's updated_at past its created_at, and the id
\* of the first insertion is still on the row
C16_Witness ==
    \E a \in Adders :
        /\ adders[a].pc = "done" /\ adders[a].res = "ok"
        /\ \E c \in RowsFor(claims, adders[a].session, adders[a].method) :
              /\ c.updated_at = adders[a].currentTime
              /\ c.updated_at > c.created_at
              /\ c.id >= 100

\* C17 as stated: also with AddClaimToSession calls for the sessions bound to F running
\* while the downgrade's transaction is open, in the state in which
\* DowngradeSessionsToAAL1(F) returns success no session bound to F holds a claim of F's
\* type and each is at AAL1.
C17_DowngradeCompleteUnderRace ==
    [][DowngradeSucceeds =>
          \A s \in BoundSessions :
              /\ RowsFor(claims', s, dg.factorType) = {}
              /\ aal'[s] = AAL1]_vars

\* C17 amended: in the state in which DowngradeSessionsToAAL1(F) returns success every
\* session bound to F is at AAL1 and holds no claim of F's type that was in the ledger
\* when the downgrade's DELETE for that session ran; a claim of F's type is left on such a
\* session only if an AddClaimToSession statement ran while the transaction was open and
\* the DELETE for that session had found no row.
C17_DowngradeRemovesClaimsItSaw ==
    [][DowngradeSucceeds =>
          \A s \in BoundSessions :
              /\ aal'[s] = AAL1
              /\ RowsFor(claims', s, dg.factorType) # {} =>
                    /\ raced
                    /\ <<s, dg.factorType>> \notin dg.deleted
                    /\ \A c \in RowsFor(claims', s, dg.factorType) : c.id <= MaxCalls]_vars

\* a downgrade has succeeded although a claim of the factor's type was recorded for one of
\* its sessions while its transaction was open: the claim went with the others
C17_Witness ==
    /\ dg.pc = "done" /\ dg.res = "ok" /\ raced
    /\ \E a \in Adders :
          /\ adders[a].pc = "done" /\ adders[a].res = "ok"
          /\ adders[a].method = dg.factorType
          /\ sessFactor[adders[a].session] = dg.f
          /\ RowsFor(claims, adders[a].session, dg.factorType) = {}
    /\ \A s \in BoundSessions : RowsFor(claims, s, dg.factorType) = {} /\ aal[s] = AAL1

(* ------------------------------ properties: send* flows --------------- *)

\* the step in which request r passes or fails the frequency check
GateStep(r) == req[r].pc = "called" /\ req'[r].pc # "called"

\* the step in which request r returns MaxFrequencyLimitError
Rejected(r) == req[r].pc = "called" /\ req'[r].res = "RateLimited"

\* the step in which request r's write succeeds
Persisted(r) == req[r].pc = "mailed" /\ req'[r].res = "ok"

\* lastSentAt of the flow on a record
LastSentAt(flow, u) ==
    CASE flow = "confirmation" -> u.confirmation_sent_at
      [] flow \in {"recovery", "magiclink"} -> u.recovery_sent_at
      [] flow = "reauthentication" -> u.reauthentication_sent_at

\* the flows with a rate gate
GatedFlows == {"confirmation", "recovery", "magiclink", "reauthentication"}

\* C3 as stated: the gate rejects for now in [t0, t0+d) and allows for now >= t0+d,
\* t0+d included; a nil lastSentAt always allows.
C3_GateAllowsAtBoundary ==
    [][\A r \in Requests :
          (GateStep(r) /\ req[r].flow \in GatedFlows) =>
              LET t0 == LastSentAt(req[r].flow, req[r].u)
              IN  /\ (t0 = NoTime) => ~Rejected(r)
                  /\ (t0 # NoTime /\ t0 <= now /\ now < t0 + MaxFrequency) => Rejected(r)
                  /\ (t0 # NoTime /\ now >= t0 + MaxFrequency) => ~Rejected(r)]_vars

\* C3 amended: the gate of sendConfirmation, sendPasswordRecovery, sendReauthenticationOtp
\* and sendMagicLink rejects for every now in [t0, t0+d], t0+d included, and allows for
\* every now > t0+d; a nil lastSentAt always allows.
C3_GateRejectsThroughBoundary ==
    [][\A r \in Requests :
          (GateStep(r) /\ req[r].flow \in GatedFlows) =>
              LET t0 == LastSentAt(req[r].flow, req[r].u)
              IN  /\ (t0 = NoTime) => ~Rejected(r)
                  /\ (t0 # NoTime /\ t0 <= now /\ now <= t0 + MaxFrequency) => Rejected(r)
                  /\ (t0 # NoTime /\ now > t0 + MaxFrequency) => ~Rejected(r)]_vars

\* a request was rejected at exactly t0+d
C3_Witness ==
    \E r \in Requests :
        /\ req[r].pc = "done" /\ req[r].res = "RateLimited"
        /\ LastSentAt(req[r].flow, req[r].u) # NoTime
        /\ req[r].readAt = LastSentAt(req[r].flow, req[r].u) + MaxFrequency

\* the token of the flow on a record
TokenOf(flow, u) ==
    CASE flow \in {"confirmation", "invite"} -> u.confirmation_token
      [] flow \in {"recovery", "magiclink"} -> u.recovery_token
      [] flow = "reauthentication" -> u.reauthentication_token

\* C6: when the mail dispatch of a single-token flow fails, the flow returns the error
\* with nothing written: the persisted row is untouched by every step of the request,
\* and the record handed in is back at the token and the sent-at it came with.
C6_DispatchFailureRollsBack ==
    /\ [][\A r \in Requests :
            (req[r].pc = "generated" /\ req'[r].pc = "done" /\ req'[r].res # "ok") =>
                /\ req'[r].res = "MailError"
                /\ req'[r].u = req[r].entry
                /\ users' = users /\ mails' = mails]_vars
    /\ [][\A r \in Requests :
            (req'[r] # req[r] /\ req'[r].res # "ok") => users' = users]_vars

\* a dispatch failed for an account with a pending token A, and A is still on the record
\* and in the row
C6_Witness ==
    \E r \in Requests :
        /\ req[r].pc = "done" /\ req[r].res = "MailError"
        /\ TokenOf(req[r].flow, req[r].entry) # ""
        /\ TokenOf(req[r].flow, req[r].u) = TokenOf(req[r].flow, req[r].entry)
        /\ TokenOf(req[r].flow, users[req[r].u.email]) = TokenOf(req[r].flow, req[r].entry)

\* the accounts whose mails draw on one rate-limit budget
Budget(flow) == IF flow = "magiclink" THEN "recovery" ELSE flow

\* C8: for one account and one kind, no two mails are dispatched less than minInterval
\* apart, whatever the interleaving of the requests.
C8_MinIntervalBetweenDispatches ==
    \A i, j \in 1..Len(mails) :
        (/\ i < j
         /\ mails[i].flow \in GatedFlows /\ mails[j].flow \in GatedFlows
         /\ Budget(mails[i].flow) = Budget(mails[j].flow)
         /\ mails[i].to = mails[j].to)
            => mails[j].at - mails[i].at >= MaxFrequency

\* C9: when a flow returns MaxFrequencyLimitError nothing has happened: no one-time code,
\* no mail, no change to the record, no write.
C9_GateBeforeSideEffects ==
    [][\A r \in Requests :
          Rejected(r) =>
              /\ req'[r].u = req[r].u
              /\ req'[r].u = req[r].entry
              /\ req[r].otp = "" /\ req'[r].otp = ""
              /\ users' = users /\ mails' = mails /\ audit' = audit]_vars

\* a request was rejected and its record is as it was loaded
C9_Witness ==
    \E r \in Requests :
        /\ req[r].pc = "done" /\ req[r].res = "RateLimited"
        /\ req[r].u = req[r].entry
        /\ LastSentAt(req[r].flow, req[r].u) # NoTime
        /\ users[req[r].u.email] = req[r].entry

\* C10: sendPasswordRecovery and sendMagicLink check the same recovery_sent_at, so either
\* is rejected inside the window the other opened, and a successful one writes
\* recovery_token and recovery_sent_at of the row and nothing else.
C10_SharedRecoveryBudget ==
    [][\A r \in Requests :
          (req[r].flow \in {"recovery", "magiclink"}) =>
              /\ (/\ GateStep(r)
                  /\ req[r].u.recovery_sent_at # NoTime
                  /\ req[r].u.recovery_sent_at <= now
                  /\ now < req[r].u.recovery_sent_at + MaxFrequency) => Rejected(r)
              /\ Persisted(r) =>
                    users' = [users EXCEPT ![req[r].u.email] =
                                [@ EXCEPT !.recovery_token = Derive(req[r].u.email, req[r].otp),
                                          !.recovery_sent_at = req[r].nowT]]]_vars

\* a magic link was refused inside the window a successful recovery opened
C10_Witness ==
    \E r \in Requests :
        /\ req[r].pc = "done" /\ req[r].flow = "magiclink" /\ req[r].res = "RateLimited"
        /\ Len(mails) = 1 /\ mails[1].flow = "recovery"
        /\ users[mails[1].to].recovery_sent_at = mails[1].at
        /\ users[mails[1].to].recovery_token = Derive(mails[1].to, mails[1].otp)
        /\ req[r].u.recovery_sent_at = mails[1].at
        /\ req[r].readAt < mails[1].at + MaxFrequency

(* ------------------------------ properties: factors ------------------- *)

\* the step in which updater w's Update* method returns success
UpdateSucceeds(w) == updaters[w].pc = "loaded" /\ updaters'[w].res = "ok"

\* C12: a partial update of a factor sets the field it was asked to change and leaves
\* every other field of the row (updated_at apart) at its stored value, also when the
\* record it was issued from is older than the row; so two concurrent updates of
\* different fields both take effect.
C12_PartialUpdatesDoNotClobber ==
    [][\A w \in Updaters :
          UpdateSucceeds(w) =>
              LET id == updaters[w].id
                  column == updaters'[w].column
              IN  /\ factors'[id][column] = updaters'[w].f[column]
                  /\ \A c \in DOMAIN factors[id] \ {column, "updated_at"} :
                        factors'[id][c] = factors[id][c]
                  /\ \A v \in Updaters \ {w} :
                        (/\ updaters[v].pc = "done" /\ updaters[v].res = "ok"
                         /\ updaters[v].id = id /\ updaters[v].column # column
                         /\ factors[id][updaters[v].column] = updaters[v].f[updaters[v].column])
                            => factors'[id][updaters[v].column]
                                   = updaters[v].f[updaters[v].column]]_vars

\* two updates of different fields, each from a copy read before the other's write, have
\* both completed and the row carries both new values
C12_Witness ==
    \E w, v \in Updaters :
        /\ updaters[w].pc = "done" /\ updaters[w].res = "ok" /\ updaters[w].column = "status"
        /\ updaters[v].pc = "done" /\ updaters[v].res = "ok"
        /\ updaters[v].column = "friendly_name"
        /\ updaters[w].id = updaters[v].id
        /\ updaters[w].f.friendly_name # updaters[v].f.friendly_name
        /\ updaters[w].f.status # updaters[v].f.status
        /\ factors[updaters[w].id].status = updaters[w].f.status
        /\ factors[updaters[w].id].friendly_name = updaters[v].f.friendly_name

\* C13: FindFactorByFactorID returns FactorNotFoundError exactly when no factor has the
\* id, and a lookup that fails for a storage fault returns an error other than
\* FactorNotFoundError.
C13_NotFoundDistinctFromStorageFault ==
    (lookup.pc = "done") =>
        /\ ~lookup.fault =>
              ((lookup.err = "FactorNotFoundError") <=> (lookup.id \notin DOMAIN factors))
        /\ lookup.fault => lookup.err \notin {"", "FactorNotFoundError"}

(* ------------------------------ properties: email change and frames --- *)

\* the step in which request r's sendEmailChange returns success
EmailChangePersisted(r) == req[r].pc = "ec_mailed" /\ req'[r].res = "ok"

\* C11: after a successful sendEmailChange(u, email) the row's email_change is the requested
\* address, email_change_token_new is derive(requested address, otpNew),
\* email_change_token_current is derive(current email, otpCurrent) in secure mode with a
\* current email, and email_change_confirm_status is zero, whatever was pending before.
C11_EmailChangeTokensMatchRequest ==
    [][\A r \in Requests :
          EmailChangePersisted(r) =>
              LET e == req[r].u.email
                  row == users'[e]
              IN  /\ row.email_change = req[r].email
                  /\ row.email_change_token_new = Derive(req[r].email, req[r].otp)
                  /\ (req[r].secure /\ e # "") =>
                        row.email_change_token_current = Derive(e, req[r].otpCurrent)
                  /\ row.email_change_confirm_status = zeroConfirmation]_vars

\* the fields each flow owns, as the claim lists them
OwnFields(flow) ==
    CASE flow = "confirmation" -> {"confirmation_token", "confirmation_sent_at"}
      [] flow = "invite" -> {"confirmation_token", "confirmation_sent_at", "invited_at"}
      [] flow \in {"recovery", "magiclink"} -> {"recovery_token", "recovery_sent_at"}
      [] flow = "reauthentication" ->
            {"reauthentication_token", "reauthentication_sent_at"}
      [] flow = "email_change" ->
            {"email_change_token_current", "email_change_token_new", "email_change",
             "email_change_sent_at", "email_change_confirm_status"}

\* C19: the write of a flow whose dispatch succeeded sets exactly the flow's own fields of
\* the account's row, to the values on the record, and leaves every other field of the
\* row and every other row as it was.
C19_PersistsExactlyOwnFields ==
    [][\A r \in Requests :
          (Persisted(r) \/ EmailChangePersisted(r)) =>
              LET e == req[r].u.email
              IN  /\ DOMAIN users' = DOMAIN users
                  /\ \A e2 \in DOMAIN users \ {e} : users'[e2] = users[e2]
                  /\ \A f \in DOMAIN users[e] :
                        IF f \in OwnFields(req[r].flow)
                        THEN users'[e][f] = req'[r].u[f]
                        ELSE users'[e][f] = users[e][f]]_vars

\* a confirmation was written from a record loaded before an email change of the same
\* account was written, and the row holds both the pending change and the confirmation
C19_Witness ==
    \E r \in Requests :
        /\ req[r].pc = "done" /\ req[r].res = "ok" /\ req[r].flow = "confirmation"
        /\ req[r].u.email_change = ""
        /\ users[req[r].u.email].email_change # ""
        /\ users[req[r].u.email].email_change_token_new # ""
        /\ users[req[r].u.email].confirmation_token = req[r].u.confirmation_token
        /\ users[req[r].u.email].confirmation_token # ""

\* the pending email-change state of a record
PendingChange(u) ==
    <<u.email_change_token_new, u.email_change_token_current, u.email_change,
      u.email_change_confirm_status>>

\* C20: when the mail dispatch of sendEmailChange fails the error is returned, nothing is
\* written, and the record's pending email-change state is back at what it was before
\* the call.
C20_EmailChangeDispatchFailureRestores ==
    [][\A r \in Requests :
          (req[r].pc = "ec_generated" /\ req'[r].pc = "done") =>
              /\ req'[r].res = "MailError"
              /\ users' = users
              /\ PendingChange(req'[r].u) = PendingChange(req[r].entry)]_vars

(* ------------------------------ properties: mailed code --------------- *)

\* the mails that carried the code c
MailsWith(log, c) == {i \in 1..Len(log) : log[i].otp = c}

\* C18: when a single-token flow returns success, the mailer was invoked once with the
\* plaintext code c of this request, the token written for the flow is derive(account
\* email, c), and neither the mailed value is the token nor the token the code.
C18_MailedCodeMatchesStoredToken ==
    [][\A r \in Requests :
          Persisted(r) =>
              LET e == req[r].u.email
                  c == req[r].otp
                  token == TokenOf(req[r].flow, users'[e])
              IN  /\ Cardinality(MailsWith(mails', c)) = 1
                  /\ \A i \in MailsWith(mails', c) :
                        mails'[i].flow = req[r].flow /\ mails'[i].to = e
                  /\ token = Derive(e, c)
                  /\ token # c
                  /\ \A i \in 1..Len(mails') : mails'[i].otp # token]_vars

\* a magic link returned success: its code was mailed once and the stored recovery token
\* is the digest of the account's email and that code
C18_Witness ==
    \E r \in Requests :
        /\ req[r].pc = "done" /\ req[r].res = "ok" /\ req[r].flow = "magiclink"
        /\ \E i \in 1..Len(mails) :
              /\ mails[i].flow = "magiclink"
              /\ users[req[r].u.email].recovery_token = Derive(req[r].u.email, mails[i].otp)
              /\ users[req[r].u.email].recovery_token # mails[i].otp
              /\ Cardinality(MailsWith(mails, mails[i].otp)) = 1

(* ------------------------------ properties: duplicate guard ----------- *)

\* the step of a GenerateLink call
LinkStep == ops' = ops + 1 /\ req' = req

\* the step in which request r is started
StartStep(r) == ops' = ops + 1 /\ req'[r] # req[r]

C14_LinkFailureLeavesNothing ==
    [][(LinkStep /\ resp'.status # "ok") =>
          /\ users' = users /\ audit' = audit /\ mails' = mails
          /\ resp'.user = NoUser /\ resp'.action_link = ""
          /\ resp'.email_otp = "" /\ resp'.hashed_token = ""]_vars

\* an invite for an address with no account failed at the construction of the action
\* link, after the account, the identity, the audit entry and the token had been written
\* inside the transaction, and none of them is there
C14_Witness ==
    /\ resp.fault = "link" /\ resp.status = "LinkError" /\ resp.type = "invite"
    /\ resp.email = "b@x"
    /\ "b@x" \notin DOMAIN users
    /\ audit = <<>>

(* ------------------------------ properties: link token ---------------- *)

\* the token field of the users row that a link of the given type is verified against
LinkTokenField(type) ==
    CASE type \in {"recovery", "magiclink"} -> "recovery_token"
      [] type \in {"signup", "invite"} -> "confirmation_token"
      [] type = "email_change_current" -> "email_change_token_current"
      [] OTHER -> "email_change_token_new"

\* the address a token of the given type is derived from: the pending new address for
\* the new-address side of an email change, the account's address otherwise
LinkIdentifier(type, row) ==
    IF type = "email_change_new" THEN row.email_change ELSE row.email

\* C21: when GenerateLink succeeds, the hashed_token it returns is the token the call
\* stored in the flow's field of the account's row, and that token is
\* derive(identifier, email_otp) for the one-time code it returns.
C21_LinkReturnsPersistedToken ==
    [][(LinkStep /\ resp'.status = "ok") =>
          LET row == users'[resp'.email]
              token == row[LinkTokenField(resp'.type)]
          IN  /\ resp'.hashed_token = token
              /\ token = Derive(LinkIdentifier(resp'.type, row), resp'.email_otp)]_vars

\* the part of C21 that the code keeps: for every type but email_change_new the returned
\* hashed_token is the stored token; and for every type the stored token is
\* derive(identifier, email_otp)
C21_StoredTokenMatchesCode ==
    [][(LinkStep /\ resp'.status = "ok") =>
          LET row == users'[resp'.email]
              token == row[LinkTokenField(resp'.type)]
          IN  /\ resp'.type # "email_change_new" => resp'.hashed_token = token
              /\ token = Derive(LinkIdentifier(resp'.type, row), resp'.email_otp)]_vars

\* a link for the new address was returned with a hashed_token that is not the stored one
C21_ReturnedTokenNotStored ==
    /\ resp.status = "ok" /\ resp.type = "email_change_new"
    /\ users[resp.email].email_change_token_new = Derive("c@x", resp.email_otp)
    /\ resp.hashed_token = Derive(resp.email, resp.email_otp)
    /\ resp.hashed_token # users[resp.email].email_change_token_new
====
